---- MODULE Spec2Model ----
(***************************************************************************)
(* Model of src/main.py (picojoker): the cooperative main loop, the four   *)
(* content sources (local joke, online joke, weather, echo), the status    *)
(* LED and the background WiFi task, as uasyncio schedules them.           *)
(*                                                                         *)
(* A task runs without interruption between two suspension points          *)
(* (await of a task, uasyncio.sleep).  The steps of main below are finer   *)
(* than that, so the other tasks are guarded by MainYielded.               *)
(***************************************************************************)
EXTENDS Integers, FiniteSets, Sequences, TLC

VARIABLES
    pc,                 \* position of main()
    cursrc,             \* the content source main() last dispatched
    fpc,                \* per source: position inside its fetch() coroutine
    furl,               \* the fetch_url() task of the fetch in flight
    res,                \* what fetch_url() produced
    exc,                \* the exception raised inside the try block of the fetch
                        \* dispatched last, "None" when there was none
    led,                \* the RGB LED colour
    led_writer,         \* who wrote the LED last: "init" (line 62), "fetch", "wifi",
                        \* or "fetch_during_wifi" for the finally clause of a fetch
                        \* that ran while the connect_wifi task had not ended
    nBusy, nIdle,       \* LED writes made by the fetch dispatched last
    payload,            \* per source: joke / setup+punchline / weather_data / response
    error,              \* per source: self.error, "None" or "Exception" (the code only
                        \* tests it for truth and prints it)
    screen,             \* what the display shows
    buttons,            \* what the read() calls of the current iteration return: the
                        \* buttons read as pressed (empty outside the if/elif chain)
    network_connected,  \* the local flag of main()
    wifi_task,          \* the connect_wifi() task
    associated,         \* station.isconnected()
    have_secrets,       \* config_secrets.py can be imported
    diagnostic,         \* the "Please provide your WiFi connection details" log line was written
    san_text,           \* BaseJoke._sanitize: the text, a sequence of codepoints
    san_prev,           \* the text the last call of _sanitize was given
    san_n,              \* the number of times _sanitize has been applied to the text
    wmo_code,           \* Weather._wmo_weather_code_string: the code
    wmo_label           \* the label returned for the code ("" before the call)

\* the program: main(), the content sources, the LED and the WiFi task
progvars == <<pc, cursrc, fpc, furl, res, exc, led, led_writer, nBusy, nIdle, payload, error,
              screen, buttons, network_connected, wifi_task, associated,
              have_secrets, diagnostic>>

\* the two pure functions, taken alone
fnvars == <<san_text, san_prev, san_n, wmo_code, wmo_label>>

vars == <<progvars, fnvars>>

----------------------------------------------------------------------------
(* Names *)

Sources == {"local_joke", "online_german_joke", "weather", "echo"}

RemoteSources == {"online_german_joke", "weather", "echo"}

Buttons == {"BUTTON_Y", "BUTTON_X", "BUTTON_A", "BUTTON_B"}

LED_COLOR_IDLE == "idle"

LED_COLOR_BUSY == "busy"

\* What urequests.get() and response.text can be: the call raises, or the
\* body is empty, not JSON, JSON of another shape, or JSON of the expected shape.
UrlOutcomes == {"raise", "empty", "malformed", "unexpected", "good"}

\* What reading jokes.min.json and picking a line can be: open() raises, the
\* file has no line, the line is not JSON, the line is a JSON array with one
\* string only, the line is a [setup, punchline] pair.
FileOutcomes == {"unreadable", "nolines", "malformed", "partial", "good"}

\* The exceptions the I/O and the decoding raise; all derive from Exception
ExcKinds == {"OSError", "ValueError", "IndexError", "KeyError"}

----------------------------------------------------------------------------
(* The content sources: what the try block of each fetch() does with the   *)
(* outcome of its I/O.  The result is the new payload and the exception    *)
(* raised inside the try block ("None" when it ran to its end).            *)

NoPayload(s) == IF s = "local_joke" THEN <<"", "">> ELSE "None"

\* Echo.fetch, lines 96-97: self.response = response.text
EchoTry(p, r) ==
    CASE r = "raise" -> [payload |-> p, raised |-> "OSError"]
      [] r = "empty" -> [payload |-> "empty", raised |-> "None"]
      [] OTHER       -> [payload |-> "body", raised |-> "None"]

\* OnlineGermanPunchlineJoke.fetch, lines 157-160
OnlineJokeTry(p, r) ==
    CASE r = "raise"                -> [payload |-> p, raised |-> "OSError"]
      [] r \in {"empty", "malformed"} -> [payload |-> p, raised |-> "ValueError"]
      [] r = "unexpected"           -> [payload |-> p, raised |-> "KeyError"]
      [] OTHER                      -> [payload |-> "text", raised |-> "None"]

\* Weather.fetch, lines 226-227: any JSON document is stored as weather_data
WeatherTry(p, r) ==
    CASE r = "raise"                -> [payload |-> p, raised |-> "OSError"]
      [] r \in {"empty", "malformed"} -> [payload |-> p, raised |-> "ValueError"]
      [] r = "unexpected"           -> [payload |-> "unexpected", raised |-> "None"]
      [] OTHER                      -> [payload |-> "good", raised |-> "None"]

\* LocalPunchlineJoke.fetch, lines 188-193: setup is assigned before
\* punchline, so a line with one element leaves the new setup behind.
LocalJokeTry(p, f) ==
    CASE f = "unreadable" -> [payload |-> p, raised |-> "OSError"]
      [] f = "nolines"    -> [payload |-> p, raised |-> "IndexError"]
      [] f = "malformed"  -> [payload |-> p, raised |-> "ValueError"]
      [] f = "partial"    -> [payload |-> <<"text", p[2]>>, raised |-> "IndexError"]
      [] OTHER            -> [payload |-> <<"text", "text">>, raised |-> "None"]

Try(s, p, r) ==
    CASE s = "local_joke"         -> LocalJokeTry(p, r)
      [] s = "online_german_joke" -> OnlineJokeTry(p, r)
      [] s = "weather"            -> WeatherTry(p, r)
      [] OTHER                    -> EchoTry(p, r)

\* variant: "except OSError as e"
Catches_OSErrorOnly(e) == e = "OSError"

\* "except Exception as e": every exception kind of the model is an Exception
Catches(e) == e \in ExcKinds

\* display() of each source: the view drawn, or "raise" when display() raises
\* (lines 108-114, 166-172, 199-205, 233-244)
DisplayView(s, p, e) ==
    CASE e # "None"               -> "error"
      [] s = "local_joke"         -> "content"
      [] s = "online_german_joke" -> IF p = "None" THEN "raise" ELSE "content"
      [] s = "weather"            -> IF p = "good" THEN "content" ELSE "raise"
      [] OTHER                    -> IF p = "body" THEN "raise" ELSE "placeholder"

----------------------------------------------------------------------------
(* The scheduler of uasyncio *)

\* wifi_task.done(): true once the coroutine has ended, by return or by raise
WifiTaskDone == wifi_task \in {"done", "failed"}

\* variant: the fetch is started with create_task() and not awaited
FetchReturned_NotAwaited(s) == TRUE

\* "await x.fetch()": main() goes on when the coroutine has returned
FetchReturned(s) == fpc[s] = "returned"

\* "await ...create_task(self.fetch_url())": fetch() goes on when the task has ended
FetchUrlDone == furl = "done"

\* main() is suspended: in uasyncio.sleep(0.2), or awaiting the fetch_url task
MainYielded ==
    \/ pc = "sleep"
    \/ pc = "fetch" /\ fpc[cursrc] = "await"

\* variant: the remote branches do not test network_connected
Select_IgnoresLatch(b, nc) ==
    IF "BUTTON_Y" \in b THEN "local_joke"
    ELSE IF "BUTTON_X" \in b THEN "online_german_joke"
    ELSE IF "BUTTON_A" \in b THEN "weather"
    ELSE IF "BUTTON_B" \in b THEN "echo"
    ELSE "none"

\* variant: the branches of the remote sources come before the local joke
Select_RemoteFirst(b, nc) ==
    IF "BUTTON_X" \in b /\ nc THEN "online_german_joke"
    ELSE IF "BUTTON_A" \in b /\ nc THEN "weather"
    ELSE IF "BUTTON_B" \in b /\ nc THEN "echo"
    ELSE IF "BUTTON_Y" \in b THEN "local_joke"
    ELSE "none"

\* The if/elif chain of the main loop, lines 318-329: the source to dispatch
Select(b, nc) ==
    IF "BUTTON_Y" \in b THEN "local_joke"
    ELSE IF "BUTTON_X" \in b /\ nc THEN "online_german_joke"
    ELSE IF "BUTTON_A" \in b /\ nc THEN "weather"
    ELSE IF "BUTTON_B" \in b /\ nc THEN "echo"
    ELSE "none"

\* variant: the flag follows the association, "network_connected = station.isconnected()"
LatchValue_Tracking == WifiTaskDone /\ associated

\* lines 331-332: the flag after the check at the end of an iteration
LatchValue == IF ~network_connected /\ WifiTaskDone THEN TRUE ELSE network_connected

----------------------------------------------------------------------------
\* the state after the module's initialisation and the constructors
InitProgram ==
    /\ pc = "start"
    /\ cursrc = "local_joke"
    /\ fpc = [s \in Sources |-> "idle"]
    /\ furl = "none"
    /\ res = "none"
    /\ exc = "None"
    /\ led = LED_COLOR_IDLE
    /\ led_writer = "init"
    /\ nBusy = 0
    /\ nIdle = 0
    /\ payload = [s \in Sources |-> NoPayload(s)]
    /\ error = [s \in Sources |-> "None"]
    /\ screen = <<"none", "blank">>
    /\ buttons = {}
    /\ network_connected = FALSE
    /\ wifi_task = "notstarted"
    /\ associated = FALSE
    /\ have_secrets \in BOOLEAN
    /\ diagnostic = FALSE

\* no call of the pure functions is under study
InitFunctionsIdle ==
    /\ san_text = <<>>
    /\ san_prev = <<>>
    /\ san_n = 0
    /\ wmo_code = 0
    /\ wmo_label = ""

Init == InitProgram /\ InitFunctionsIdle

\* main() calls s.fetch(): lines 311, 319, 322, 325, 328
Call(s) ==
    /\ pc' = "fetch"
    /\ cursrc' = s
    /\ fpc' = [fpc EXCEPT ![s] = "enter"]
    /\ nBusy' = 0
    /\ nIdle' = 0
    /\ exc' = "None"

\* line 311
MainStart ==
    /\ pc = "start"
    /\ Call("local_joke")
    /\ UNCHANGED <<furl, res, led, led_writer, payload, error, screen, buttons,
                   network_connected, wifi_task, associated, have_secrets, diagnostic>>
    /\ UNCHANGED fnvars

\* variant: fetch() begins by resetting the payload and self.error
FetchEnter_ClearsState(s) ==
    /\ fpc[s] = "enter"
    /\ payload' = [payload EXCEPT ![s] = NoPayload(s)]
    /\ error' = [error EXCEPT ![s] = "None"]
    /\ led' = LED_COLOR_BUSY
    /\ led_writer' = "fetch"
    /\ nBusy' = nBusy + 1
    /\ IF s = "local_joke"
         THEN /\ fpc' = [fpc EXCEPT ![s] = "body"]
              /\ UNCHANGED furl
         ELSE /\ fpc' = [fpc EXCEPT ![s] = "await"]
              /\ furl' = "ready"
    /\ UNCHANGED <<pc, cursrc, res, exc, nIdle, screen, buttons,
                   network_connected, wifi_task, associated, have_secrets, diagnostic>>
    /\ UNCHANGED fnvars

\* fetch() up to its try block: gc.collect(), led.set_rgb(*LED_COLOR_BUSY);
\* a remote source then creates the fetch_url task and awaits it
FetchEnter(s) ==
    /\ fpc[s] = "enter"
    /\ led' = LED_COLOR_BUSY
    /\ led_writer' = "fetch"
    /\ nBusy' = nBusy + 1
    /\ IF s = "local_joke"
         THEN /\ fpc' = [fpc EXCEPT ![s] = "body"]
              /\ UNCHANGED furl
         ELSE /\ fpc' = [fpc EXCEPT ![s] = "await"]
              /\ furl' = "ready"
    /\ UNCHANGED <<pc, cursrc, res, exc, nIdle, payload, error, screen, buttons,
                   network_connected, wifi_task, associated, have_secrets, diagnostic>>
    /\ UNCHANGED fnvars

\* the fetch_url task: urequests.get(), which blocks until it returns or raises
FetchUrl(s) ==
    /\ fpc[s] = "await"
    /\ furl = "ready"
    /\ MainYielded
    /\ \E r \in UrlOutcomes : res' = r
    /\ furl' = "done"
    /\ UNCHANGED <<pc, cursrc, fpc, exc, led, led_writer, nBusy, nIdle, payload, error, screen,
                   buttons, network_connected, wifi_task, associated, have_secrets,
                   diagnostic>>
    /\ UNCHANGED fnvars

\* variant: the LED is set back at the end of the try block, with no finally clause
FetchHandle_NoFinally(s, r) ==
    LET t == Try(s, payload[s], r) IN
    /\ payload' = [payload EXCEPT ![s] = t.payload]
    /\ exc' = t.raised
    /\ error' = IF t.raised # "None" /\ Catches(t.raised)
                THEN [error EXCEPT ![s] = "Exception"]
                ELSE error
    /\ fpc' = [fpc EXCEPT ![s] = IF t.raised # "None" THEN "returned" ELSE "finally"]

\* the rest of the try block and the except clause
FetchHandle(s, r) ==
    LET t == Try(s, payload[s], r) IN
    /\ payload' = [payload EXCEPT ![s] = t.payload]
    /\ exc' = t.raised
    /\ error' = IF t.raised # "None" /\ Catches(t.raised)
                THEN [error EXCEPT ![s] = "Exception"]
                ELSE error
    /\ fpc' = [fpc EXCEPT ![s] = "finally"]

FetchBodyLocal ==
    /\ fpc["local_joke"] = "body"
    /\ \E f \in FileOutcomes : FetchHandle("local_joke", f)
    /\ UNCHANGED <<pc, cursrc, furl, res, led, led_writer, nBusy, nIdle, screen, buttons,
                   network_connected, wifi_task, associated, have_secrets, diagnostic>>
    /\ UNCHANGED fnvars

FetchBodyRemote(s) ==
    /\ s \in RemoteSources
    /\ fpc[s] = "await"
    /\ FetchUrlDone
    /\ FetchHandle(s, res)
    /\ furl' = "none"
    /\ res' = "none"
    /\ UNCHANGED <<pc, cursrc, led, led_writer, nBusy, nIdle, screen, buttons,
                   network_connected, wifi_task, associated, have_secrets, diagnostic>>
    /\ UNCHANGED fnvars

\* the finally clause: led.set_rgb(*LED_COLOR_IDLE), then fetch() returns or
\* lets the uncaught exception through
FetchFinally(s) ==
    /\ fpc[s] = "finally"
    /\ led' = LED_COLOR_IDLE
    /\ led_writer' = IF wifi_task \in {"created", "polling"} THEN "fetch_during_wifi"
                                                           ELSE "fetch"
    /\ nIdle' = nIdle + 1
    /\ fpc' = [fpc EXCEPT ![s] = IF exc = "None" \/ Catches(exc) THEN "returned" ELSE "raised"]
    /\ UNCHANGED <<pc, cursrc, furl, res, exc, nBusy, payload, error, screen, buttons,
                   network_connected, wifi_task, associated, have_secrets, diagnostic>>
    /\ UNCHANGED fnvars

\* main() after "await s.fetch()": on to s.display(); an exception out of
\* fetch() leaves main() and ends uasyncio.run()
FetchReturn ==
    /\ pc = "fetch"
    /\ \/ /\ FetchReturned(cursrc)
          /\ pc' = "display"
          /\ fpc' = [fpc EXCEPT ![cursrc] = IF @ = "returned" THEN "idle" ELSE @]
       \/ /\ fpc[cursrc] = "raised"
          /\ pc' = "crashed"
          /\ fpc' = fpc
    /\ UNCHANGED <<cursrc, furl, res, exc, led, led_writer, nBusy, nIdle, payload, error, screen,
                   buttons, network_connected, wifi_task, associated, have_secrets,
                   diagnostic>>
    /\ UNCHANGED fnvars

\* s.display(): clear_screen(), then the error view, the content or the
\* placeholder; an exception raised by display() leaves main()
Display ==
    /\ pc = "display"
    /\ LET v == DisplayView(cursrc, payload[cursrc], error[cursrc]) IN
       IF v = "raise"
         THEN /\ screen' = <<cursrc, "blank">>
              /\ pc' = "crashed"
         ELSE /\ screen' = <<cursrc, v>>
              /\ pc' = IF wifi_task = "notstarted" THEN "create_wifi" ELSE "latch"
    /\ UNCHANGED <<cursrc, fpc, furl, res, exc, led, led_writer, nBusy, nIdle, payload, error,
                   buttons, network_connected, wifi_task, associated, have_secrets,
                   diagnostic>>
    /\ UNCHANGED fnvars

\* lines 314-315
CreateWifiTask ==
    /\ pc = "create_wifi"
    /\ wifi_task' = "created"
    /\ network_connected' = FALSE
    /\ pc' = "poll"
    /\ UNCHANGED <<cursrc, fpc, furl, res, exc, led, led_writer, nBusy, nIdle, payload, error,
                   screen, buttons, associated, have_secrets, diagnostic>>
    /\ UNCHANGED fnvars

\* lines 318-327, the conditions: BUTTON_Y.read() ... BUTTON_B.read()
ReadButtons ==
    /\ pc = "poll"
    /\ \E b \in SUBSET Buttons : buttons' = b
    /\ pc' = "dispatch"
    /\ UNCHANGED <<cursrc, fpc, furl, res, exc, led, led_writer, nBusy, nIdle, payload, error,
                   screen, network_connected, wifi_task, associated, have_secrets,
                   diagnostic>>
    /\ UNCHANGED fnvars

\* lines 318-329, the branches: at most one source is dispatched
Dispatch ==
    /\ pc = "dispatch"
    /\ LET s == Select(buttons, network_connected) IN
       IF s = "none"
         THEN /\ pc' = "latch"
              /\ UNCHANGED <<cursrc, fpc, nBusy, nIdle, exc>>
         ELSE Call(s)
    /\ buttons' = {}
    /\ UNCHANGED <<furl, res, led, led_writer, payload, error, screen,
                   network_connected, wifi_task, associated, have_secrets, diagnostic>>
    /\ UNCHANGED fnvars

\* lines 331-332
Latch ==
    /\ pc = "latch"
    /\ network_connected' = LatchValue
    /\ pc' = "sleep"
    /\ UNCHANGED <<cursrc, fpc, furl, res, exc, led, led_writer, nBusy, nIdle, payload, error,
                   screen, buttons, wifi_task, associated, have_secrets, diagnostic>>
    /\ UNCHANGED fnvars

\* variant: the loop waits for the connectivity task, "await wifi_task"
Wake_AfterWifi ==
    /\ pc = "sleep"
    /\ WifiTaskDone
    /\ pc' = "poll"
    /\ UNCHANGED <<cursrc, fpc, furl, res, exc, led, led_writer, nBusy, nIdle, payload, error,
                   screen, buttons, network_connected, wifi_task, associated,
                   have_secrets, diagnostic>>
    /\ UNCHANGED fnvars

\* line 334: main() is resumed after uasyncio.sleep(0.2)
Wake ==
    /\ pc = "sleep"
    /\ pc' = "poll"
    /\ UNCHANGED <<cursrc, fpc, furl, res, exc, led, led_writer, nBusy, nIdle, payload, error,
                   screen, buttons, network_connected, wifi_task, associated,
                   have_secrets, diagnostic>>
    /\ UNCHANGED fnvars

----------------------------------------------------------------------------
(* connect_wifi(), lines 281-302 *)

\* first run of the task, up to its first suspension or its end
WifiStart ==
    /\ wifi_task = "created"
    /\ MainYielded
    /\ led' = LED_COLOR_BUSY
    /\ led_writer' = "wifi"
    /\ IF ~have_secrets
         THEN /\ diagnostic' = TRUE
              /\ wifi_task' = "failed"
         ELSE /\ diagnostic' = diagnostic
              /\ wifi_task' = "polling"
    /\ UNCHANGED <<pc, cursrc, fpc, furl, res, exc, nBusy, nIdle, payload, error,
                   screen, buttons, network_connected, associated, have_secrets>>
    /\ UNCHANGED fnvars

\* variant: the loop sets the LED to Busy again on every turn
WifiPoll_ReassertsBusy ==
    /\ wifi_task = "polling"
    /\ MainYielded
    /\ led_writer' = "wifi"
    /\ IF associated
         THEN /\ led' = LED_COLOR_IDLE
              /\ wifi_task' = "done"
         ELSE /\ led' = LED_COLOR_BUSY
              /\ wifi_task' = wifi_task
    /\ UNCHANGED <<pc, cursrc, fpc, furl, res, exc, nBusy, nIdle, payload, error,
                   screen, buttons, network_connected, associated, have_secrets,
                   diagnostic>>
    /\ UNCHANGED fnvars

\* one turn of "while not station.isconnected(): await uasyncio.sleep(1)"
WifiPoll ==
    /\ wifi_task = "polling"
    /\ MainYielded
    /\ IF associated
         THEN /\ led' = LED_COLOR_IDLE
              /\ led_writer' = "wifi"
              /\ wifi_task' = "done"
         ELSE UNCHANGED <<led, led_writer, wifi_task>>
    /\ UNCHANGED <<pc, cursrc, fpc, furl, res, exc, nBusy, nIdle, payload, error,
                   screen, buttons, network_connected, associated, have_secrets,
                   diagnostic>>
    /\ UNCHANGED fnvars

----------------------------------------------------------------------------
(* The environment *)

Running == pc # "crashed"

\* the access point accepts or drops the station, once station.connect()
\* has been called (line 295)
AssociationChange ==
    /\ Running
    /\ wifi_task \in {"polling", "done"}
    /\ associated' = ~associated
    /\ UNCHANGED <<pc, cursrc, fpc, furl, res, exc, led, led_writer, nBusy, nIdle, payload, error,
                   screen, buttons, network_connected, wifi_task, have_secrets,
                   diagnostic>>
    /\ UNCHANGED fnvars

----------------------------------------------------------------------------
Next ==
    \/ MainStart
    \/ \E s \in Sources : FetchEnter(s)
    \/ \E s \in RemoteSources : FetchUrl(s)
    \/ FetchBodyLocal
    \/ \E s \in RemoteSources : FetchBodyRemote(s)
    \/ \E s \in Sources : FetchFinally(s)
    \/ FetchReturn
    \/ Display
    \/ CreateWifiTask
    \/ ReadButtons
    \/ Dispatch
    \/ Latch
    \/ Wake
    \/ WifiStart
    \/ WifiPoll
    \/ AssociationChange

Spec == Init /\ [][Next]_vars

\* The steps of main() and of the fetch() coroutine it awaits
MainStep ==
    \/ MainStart
    \/ \E s \in Sources : FetchEnter(s)
    \/ FetchBodyLocal
    \/ \E s \in RemoteSources : FetchBodyRemote(s)
    \/ \E s \in Sources : FetchFinally(s)
    \/ FetchReturn
    \/ Display
    \/ CreateWifiTask
    \/ ReadButtons
    \/ Dispatch
    \/ Latch
    \/ Wake

\* uasyncio runs every task that is ready and every timer expires: each of
\* the three tasks gets its turn.  The access point owes nothing.
LiveSpec ==
    /\ Spec
    /\ WF_vars(MainStep)
    /\ WF_vars(\E s \in RemoteSources : FetchUrl(s))
    /\ WF_vars(WifiStart \/ WifiPoll)

----------------------------------------------------------------------------
(* BaseJoke._sanitize, lines 127-139.  A text is a sequence of codepoints. *)

\* the length of the longest text drawn from SanAlphabet
MaxLen == 3

\* the number of times _sanitize is applied to a text in a row
MaxCalls == 2

\* a, backtick, apostrophe (ASCII; the backtick is a key of the table),
\* u-umlaut and the ellipsis (keys of the table), the euro sign (neither)
SanAlphabet == {97, 96, 39, 252, 8230, 8364}

\* "café – über"
CafeUeber == <<99, 97, 102, 233, 32, 8211, 32, 252, 98, 101, 114>>

Texts(n) == UNION {[1..k -> SanAlphabet] : k \in 0..n}

SanInputs == Texts(MaxLen) \cup {CafeUeber}

\* the dict "replacements" in the order it is written: <<key, replacement>>
Replacements ==
    <<
       <<8211, <<45>>>>, <<8212, <<45>>>>, <<8230, <<46, 46, 46>>>>, <<8216, <<39>>>>,
       <<8217, <<39>>>>, <<8218, <<39>>>>, <<8220, <<34>>>>, <<8222, <<34>>>>,
       <<96, <<39>>>>, <<180, <<39>>>>, <<225, <<97>>>>, <<224, <<97>>>>,
       <<226, <<97>>>>, <<228, <<97, 101>>>>, <<196, <<65, 101>>>>, <<231, <<99>>>>,
       <<233, <<101>>>>, <<232, <<101>>>>, <<234, <<101>>>>, <<235, <<101>>>>,
       <<237, <<105>>>>, <<238, <<105>>>>, <<239, <<105>>>>, <<241, <<110>>>>,
       <<243, <<111>>>>, <<244, <<111>>>>, <<246, <<111, 101>>>>, <<214, <<79, 101>>>>,
       <<223, <<115, 115>>>>, <<250, <<117>>>>, <<249, <<117>>>>, <<251, <<117>>>>,
       <<252, <<117, 101>>>>, <<220, <<85, 101>>>>
    >>

\* variant: text.replace(k, v, 1)
RECURSIVE ReplaceAll_FirstOnly(_, _, _)
ReplaceAll_FirstOnly(text, k, v) ==
    IF text = <<>> THEN <<>>
    ELSE IF Head(text) = k THEN v \o Tail(text)
    ELSE <<Head(text)>> \o ReplaceAll_FirstOnly(Tail(text), k, v)

\* text.replace(k, v) for a key of one character: every occurrence, left to
\* right; what is inserted is not scanned again
RECURSIVE ReplaceAll(_, _, _)
ReplaceAll(text, k, v) ==
    IF text = <<>> THEN <<>>
    ELSE IF Head(text) = k THEN v \o ReplaceAll(Tail(text), k, v)
    ELSE <<Head(text)>> \o ReplaceAll(Tail(text), k, v)

\* "for k, v in replacements.items(): text = text.replace(k, v)", from entry i on
RECURSIVE ApplyTable(_, _)
ApplyTable(text, i) ==
    IF i > Len(Replacements) THEN text
    ELSE ApplyTable(ReplaceAll(text, Replacements[i][1], Replacements[i][2]), i + 1)

\* variant: the text is returned after the replacements, unfiltered
KeepAscii_Off(text) == text

\* "".join(i for i in text if ord(i) < 128)
KeepAscii(text) == SelectSeq(text, LAMBDA c : c < 128)

\* variant: the non-ASCII characters are dropped before the replacements
Sanitize_FilterFirst(text) == ApplyTable(KeepAscii(text), 1)

Sanitize(text) == KeepAscii(ApplyTable(text, 1))

----------------------------------------------------------------------------
(* Weather._wmo_weather_code_string, lines 246-278 *)

\* the codes looked up are 0..MaxCode
MaxCode == 99

\* the dict "codes"
WmoCodes ==
    0 :> "Clear" @@ 1 :> "Partly Cloudy" @@ 2 :> "Cloudy" @@
    3 :> "Overcast" @@ 45 :> "Fog" @@ 48 :> "Fog+" @@
    51 :> "Light Showers" @@ 53 :> "Showers" @@ 55 :> "Heavy Showers" @@
    56 :> "Freezing drizzle" @@ 57 :> "Freezing drizzle+" @@ 61 :> "Light rain" @@
    63 :> "Rain" @@ 65 :> "Heavy rain" @@ 66 :> "Freezing rain" @@
    67 :> "Freezing rain+" @@ 71 :> "Light snow showers" @@ 73 :> "Snow showers" @@
    75 :> "Heavy snow showers" @@ 77 :> "Sleet showers" @@ 80 :> "Light snow" @@
    81 :> "Snow" @@ 83 :> "Heavy snow" @@ 85 :> "Sleet" @@
    86 :> "Sleet+" @@ 95 :> "Thunderstorm" @@ 96 :> "Thunderstorm hail" @@
    99 :> "Thunderstorm hail+"

\* variant: codes[code], which raises KeyError for a code that is no key
WmoWeatherCodeString_Subscript(code) ==
    IF code \in DOMAIN WmoCodes THEN WmoCodes[code] ELSE "KeyError"

\* codes.get(code, f"Unknown weather code ({code})")
WmoWeatherCodeString(code) ==
    IF code \in DOMAIN WmoCodes
      THEN WmoCodes[code]
      ELSE "Unknown weather code (" \o ToString(code) \o ")"

----------------------------------------------------------------------------
(* The two functions called on their own *)

SanitizeCall ==
    /\ san_n < MaxCalls
    /\ san_prev' = san_text
    /\ san_text' = Sanitize(san_text)
    /\ san_n' = san_n + 1
    /\ UNCHANGED <<progvars, wmo_code, wmo_label>>

SanInit ==
    /\ InitProgram
    /\ have_secrets
    /\ san_text \in SanInputs
    /\ san_prev = <<>>
    /\ san_n = 0
    /\ wmo_code = 0
    /\ wmo_label = ""

SanSpec == SanInit /\ [][SanitizeCall]_vars

WmoLookup ==
    /\ wmo_label = ""
    /\ wmo_label' = WmoWeatherCodeString(wmo_code)
    /\ UNCHANGED <<progvars, san_text, san_prev, san_n, wmo_code>>

WmoInit ==
    /\ InitProgram
    /\ have_secrets
    /\ san_text = <<>>
    /\ san_prev = <<>>
    /\ san_n = 0
    /\ wmo_code \in 0..MaxCode
    /\ wmo_label = ""

WmoSpec == WmoInit /\ [][WmoLookup]_vars

----------------------------------------------------------------------------
(* Properties *)

\* the sources whose fetch() has begun and has not yet returned
InFlight == {s \in Sources : fpc[s] \in {"enter", "await", "body", "finally"}}

PayloadSet(s) == payload[s] # NoPayload(s)

ErrorSet(s) == error[s] # "None"

\* the connectivity task is launched and has not ended
InProgress == wifi_task \in {"created", "polling"}

\* C1: single-flight. In every reachable state at most one fetch is in
\* flight, it is the fetch main() is awaiting, and main() is at no other
\* position (polling, dispatching, displaying, latching, sleeping) while a
\* fetch is in flight: nothing of the next iteration begins before the fetch
\* and the display of this one are over.
C1_SingleFlight ==
    /\ Cardinality(InFlight) <= 1
    /\ pc = "fetch" => InFlight \subseteq {cursrc}
    /\ pc # "fetch" => InFlight = {}

\* a remote fetch is suspended on its request in an iteration that follows
\* a completed weather operation, the WiFi task having ended
C1_Witness ==
    /\ InFlight = {"echo"}
    /\ fpc["echo"] = "await"
    /\ screen[1] = "weather"

\* C2: a remote joke, weather or echo fetch is dispatched only when the
\* connectivity task has observed a successful network association.
C2_RemoteOnlyWhenAssociated ==
    \A s \in RemoteSources : fpc[s] # "idle" => wifi_task = "done"

\* C3: each time a fetch returns, exactly one of {payload is set, error is
\* set} holds for its source.
C3_ExactlyOneOfPayloadError ==
    \A s \in Sources : fpc[s] = "returned" => (PayloadSet(s) # ErrorSet(s))

\* C4: every fetch writes Busy to the LED once, before its body, and writes
\* Idle once, when it exits, whether the body failed or not; the LED is Idle
\* when fetch returns.
C4_BusyIdlePaired ==
    \A s \in Sources :
        /\ fpc[s] = "enter" => nBusy = 0 /\ nIdle = 0
        /\ fpc[s] \in {"await", "body", "finally"} =>
               nBusy = 1 /\ nIdle = 0 /\ led = LED_COLOR_BUSY
        /\ fpc[s] \in {"returned", "raised"} =>
               nBusy = 1 /\ nIdle = 1 /\ led = LED_COLOR_IDLE

\* a fetch that failed has returned
C4_Witness ==
    /\ fpc["online_german_joke"] = "returned"
    /\ exc # "None"

\* C5: no failure inside a fetch reaches the caller. No fetch ever ends by
\* raising, and every step in which main() leaves "await s.fetch()" goes to
\* s.display() from a fetch that has returned, with the failure of that
\* fetch, if there was one, recorded in s.error.
C5_FetchNeverRaises ==
    [][ /\ \A s \in Sources : fpc'[s] # "raised"
        /\ (pc = "fetch" /\ pc' # "fetch") =>
               /\ pc' = "display"
               /\ fpc[cursrc] = "returned"
               /\ (exc # "None" => ErrorSet(cursrc)) ]_vars

\* main() is about to display the local joke after a fetch that failed
C5_Witness ==
    /\ pc = "display"
    /\ cursrc = "local_joke"
    /\ exc = "OSError"

\* C6: once the missing credentials have been detected the main loop
\* dispatches no fetch and no display.
C6_HardStopOnMissingSecrets ==
    diagnostic => pc \notin {"fetch", "display"}

\* the sources whose fetch() begins in a step
Started == {s \in Sources : fpc[s] # "enter" /\ fpc'[s] = "enter"}

\* C7: a fetch begins only in the dispatch step of the main loop (or at
\* startup), at most one per iteration, and it is the first in the order
\* local joke, remote joke, weather, echo whose button was read as pressed
\* (and, for the last three, with network_connected set); the other buttons
\* read in that iteration start nothing.
C7_PriorityDispatch ==
    [][ /\ Started # {} => pc \in {"start", "dispatch"}
        /\ pc = "start" => Started \subseteq {"local_joke"}
        /\ (pc = "dispatch" /\ pc' # "dispatch") =>
               /\ Cardinality(Started) <= 1
               /\ "BUTTON_Y" \in buttons => Started = {"local_joke"}
               /\ ("BUTTON_Y" \notin buttons /\ ~network_connected) => Started = {}
               /\ ("BUTTON_Y" \notin buttons /\ network_connected) =>
                      /\ "BUTTON_X" \in buttons => Started = {"online_german_joke"}
                      /\ ("BUTTON_X" \notin buttons /\ "BUTTON_A" \in buttons) =>
                             Started = {"weather"}
                      /\ (buttons = {"BUTTON_B"}) => Started = {"echo"}
                      /\ buttons = {} => Started = {} ]_vars

\* all four buttons are read as pressed in an iteration in which every
\* source could be dispatched
C7_Witness ==
    /\ pc = "dispatch"
    /\ buttons = Buttons
    /\ network_connected

\* C8: network_connected starts false and is never reset once true, and
\* while it is true every iteration that reads a button as pressed
\* dispatches a fetch, whatever station.isconnected() would say.
C8_OneWayLatch ==
    /\ ~network_connected
    /\ [][ /\ network_connected => network_connected'
           /\ (pc = "dispatch" /\ pc' # "dispatch" /\ network_connected /\ buttons # {}) =>
                  pc' = "fetch" ]_vars

\* a remote fetch is dispatched after the association was lost
C8_Witness ==
    /\ network_connected
    /\ wifi_task = "done"
    /\ ~associated
    /\ fpc["weather"] = "enter"

\* C9: the main loop never terminates because of a content operation:
\* display() returns normally after every fetch.
C9_LoopNeverTerminates ==
    pc # "crashed"

\* C10: the main loop does not wait for the connectivity task. As long as
\* the task stays in progress the loop polls the buttons again and again,
\* and a poll that reads the local-joke button as pressed is followed by the
\* fetch and the display of the local joke.
C10_NeverBlocksOnWifi ==
    /\ []<>(pc = "dispatch" \/ ~InProgress)
    /\ (pc = "dispatch" /\ "BUTTON_Y" \in buttons /\ InProgress)
           ~> (pc = "latch" /\ cursrc = "local_joke" /\ screen[1] = "local_joke")

\* the local joke is displayed in the loop while the task is still polling
\* for an association that has not come
C10_Witness ==
    /\ pc = "latch"
    /\ cursrc = "local_joke"
    /\ screen[1] = "local_joke"
    /\ wifi_task = "polling"
    /\ ~associated

\* C11: every character of the text _sanitize returns has a codepoint below
\* 128, for every text of the bounded alphabet (ASCII characters, keys of
\* the table, and a non-ASCII character that is no key).
C11_OutputIsAscii ==
    san_n >= 1 => \A i \in 1..Len(san_text) : san_text[i] < 128

\* _sanitize has returned from a text that holds the euro sign, a key of the
\* table and an ASCII character
C11_Witness ==
    /\ san_n = 1
    /\ san_prev = <<8364, 252, 97>>
    /\ san_text = <<117, 101, 97>>

\* C12: _sanitize is idempotent: applied to a text it has returned, it
\* returns that text unchanged.
C12_Idempotent ==
    san_n >= 2 => san_text = san_prev

\* the second call was given the result of a text with two backticks
C12_Witness ==
    /\ san_n = 2
    /\ san_prev = <<39, 39>>
    /\ san_text = <<39, 39>>

\* C13: the lookup returns the label of the table for a code of the table
\* (61: "Light rain") and "Unknown weather code (N)" for every other code N
\* (42: "Unknown weather code (42)"); it returns a label for every code.
C13_WeatherCodeLabel ==
    wmo_label # "" =>
        /\ wmo_label # "KeyError"
        /\ wmo_code = 61 => wmo_label = "Light rain"
        /\ wmo_code = 0 => wmo_label = "Clear"
        /\ wmo_code = 99 => wmo_label = "Thunderstorm hail+"
        /\ wmo_code = 42 => wmo_label = "Unknown weather code (42)"
        /\ wmo_code = 4 => wmo_label = "Unknown weather code (4)"
        /\ wmo_code \in {0, 1, 2, 3, 45, 48, 51, 53, 55, 56, 57, 61, 63, 65, 66, 67,
                         71, 73, 75, 77, 80, 81, 83, 85, 86, 95, 96, 99}
               <=> wmo_label \in {WmoCodes[c] : c \in DOMAIN WmoCodes}
        /\ wmo_code \notin DOMAIN WmoCodes =>
               wmo_label = "Unknown weather code (" \o ToString(wmo_code) \o ")"

\* the lookup has returned for the unknown code 42
C13_Witness ==
    /\ wmo_code = 42
    /\ wmo_label = "Unknown weather code (42)"

\* the source holds a payload that only a fetch that succeeded can have stored
HoldsSuccessPayload(s) ==
    IF s = "local_joke" THEN payload[s][2] # "" ELSE PayloadSet(s)

\* C14: every fetch begins by resetting the payload and the error of its
\* source: when a fetch that failed has returned the source holds no payload
\* of a successful fetch, and when a fetch that succeeded has returned the
\* source holds no error.
C14_FetchResetsState ==
    \A s \in Sources :
        fpc[s] = "returned" =>
            /\ exc # "None" => ~HoldsSuccessPayload(s)
            /\ exc = "None" => ~ErrorSet(s)

\* C15: from the moment a fetch has set the LED to Busy to the moment it
\* sets it to Idle the LED is Busy: no step of another task changes it.
C15_BusyWhileInFlight ==
    [][ \A s \in Sources :
            fpc[s] \in {"await", "body", "finally"} =>
                /\ led = LED_COLOR_BUSY
                /\ led' # led => fpc'[s] \in {"returned", "raised"} ]_vars

\* a remote fetch is resumed after its request, the station having lost its
\* association in the meantime
C15_Witness ==
    /\ fpc["online_german_joke"] = "await"
    /\ furl = "done"
    /\ ~associated
    /\ led = LED_COLOR_BUSY

\* C16: connect_wifi sets the LED to Busy when it starts and the LED is back
\* to Idle when it has ended, by whatever path (no fetch being in flight).
C16_WifiRestoresIdle ==
    (WifiTaskDone /\ InFlight = {}) => led = LED_COLOR_IDLE

\* C17: after an echo fetch that succeeded with a non-empty body,
\* echo.display() draws that body and returns normally.
C17_EchoRendersBody ==
    ( /\ cursrc = "echo"
      /\ pc \in {"latch", "sleep", "crashed"}
      /\ exc = "None"
      /\ payload["echo"] = "body"
      /\ ~ErrorSet("echo") )
    => (pc # "crashed" /\ screen = <<"echo", "content">>)

\* the transformation of section 4.1 of the specification, character by
\* character: the replacement for a key of the table, the character itself
\* for any other ASCII character, nothing for the rest
RefChar(c) ==
    IF \E i \in 1..Len(Replacements) : Replacements[i][1] = c
      THEN Replacements[CHOOSE i \in 1..Len(Replacements) : Replacements[i][1] = c][2]
      ELSE IF c < 128 THEN <<c>> ELSE <<>>

RECURSIVE Reference(_)
Reference(text) ==
    IF text = <<>> THEN <<>> ELSE RefChar(Head(text)) \o Reference(Tail(text))

\* C18: _sanitize is the character-by-character transformation, for every
\* text of the bounded alphabet; "café – über" gives "cafe - ueber", the
\* empty text gives the empty text and a text of euro signs gives the empty
\* text; a digraph that was inserted stays as it is.
C18_SanitizeIsReference ==
    san_n = 1 =>
        /\ san_text = Reference(san_prev)
        /\ san_prev = CafeUeber =>
               san_text = <<99, 97, 102, 101, 32, 45, 32, 117, 101, 98, 101, 114>>
        /\ san_prev = <<>> => san_text = <<>>
        /\ (\A i \in 1..Len(san_prev) : san_prev[i] = 8364) => san_text = <<>>
        /\ san_prev = <<252, 252>> => san_text = <<117, 101, 117, 101>>
        /\ san_prev = <<8230, 96>> => san_text = <<46, 46, 46, 39>>

\* _sanitize has returned for the literal of the specification
C18_Witness ==
    /\ san_n = 1
    /\ san_prev = CafeUeber
    /\ san_text = <<99, 97, 102, 101, 32, 45, 32, 117, 101, 98, 101, 114>>

\* C19: self.error of a source, once set, is never cleared, and every
\* display() of that source from then on draws the error view and returns,
\* also right after a fetch that succeeded.
C19_ErrorIsSticky ==
    [][ \A s \in Sources :
            /\ ErrorSet(s) => ErrorSet(s)'
            /\ (pc = "display" /\ pc' # "display" /\ cursrc = s /\ ErrorSet(s)) =>
                   (pc' # "crashed" /\ screen' = <<s, "error">>) ]_vars

\* the weather's error view is on the screen after a weather fetch that
\* succeeded and stored a snapshot
C19_Witness ==
    /\ pc = "latch"
    /\ cursrc = "weather"
    /\ exc = "None"
    /\ payload["weather"] = "good"
    /\ screen = <<"weather", "error">>

\* C20 as stated: the LED is Idle when a local fetch returns while the
\* connectivity task is in progress; as long as the task stays in progress,
\* an LED that such a fetch left Idle changes only when a fetch starts; and
\* the LED is Idle when main() sleeps after the task has ended successfully.
C20_LastWriterWins_AsStated ==
    [][ /\ (fpc["local_joke"] = "returned" /\ InProgress) => led = LED_COLOR_IDLE
        /\ ( /\ InProgress /\ InProgress'
             /\ led_writer = "fetch_during_wifi" /\ led = LED_COLOR_IDLE
             /\ led' # LED_COLOR_IDLE ) => led_writer' = "fetch"
        /\ (pc = "sleep" /\ wifi_task = "done") => led = LED_COLOR_IDLE ]_vars

\* C20, amended: the same, for a connectivity task that has run, has set the
\* LED to Busy and is polling for the association.
C20_LastWriterWins ==
    [][ /\ (fpc["local_joke"] = "returned" /\ InProgress) => led = LED_COLOR_IDLE
        /\ ( /\ wifi_task = "polling" /\ InProgress'
             /\ led_writer = "fetch_during_wifi" /\ led = LED_COLOR_IDLE
             /\ led' # LED_COLOR_IDLE ) => led_writer' = "fetch"
        /\ (pc = "sleep" /\ wifi_task = "done") => led = LED_COLOR_IDLE ]_vars

\* main() sleeps after a local fetch in the loop has overridden the Busy of
\* the task with Idle, while the task polls for an association that has not come
C20_Witness ==
    /\ pc = "sleep"
    /\ wifi_task = "polling"
    /\ ~associated
    /\ cursrc = "local_joke"
    /\ led_writer = "fetch_during_wifi"
    /\ led = LED_COLOR_IDLE

====
